---- MODULE Spec2Model ----
(***************************************************************************)
(* Model of the Jira polling subsystem of aim (src/common/jira.go):        *)
(* the refresh loop (StartRefreshLoop / RefreshData), the paginated        *)
(* query (GetIssues), the issue cache (updateIssueCache) guarded by the    *)
(* RWMutex mu, the reader GetLastRefreshTime, and the field mapper         *)
(* ConvertToCustomIssues.                                                  *)
(***************************************************************************)
EXTENDS Integers, Sequences, FiniteSets, TLC

(* ------------------------------ bounds --------------------------------- *)
\* issue identifiers the remote tracker can hold in the loop model
MaxIssues == 2
\* largest page size tried in the loop model (maxResults, jira.go:109, scaled)
MaxPage == 2
\* the clock runs 0..MaxTime
MaxTime == 2
\* concurrent callers of GetLastRefreshTime
NReaders == 2
\* size of the result set and page size in the single-call pagination model
MaxN == 5
MaxP == 3
\* longest batch of several issues handed to the mapper
MaxBatch == 3

IDs == 1..MaxIssues
Readers == 1..NReaders
\* underlying causes a failed page request can carry
Causes == {"timeout", "status500"}

VARIABLES
  projectKey,   \* JiraClient.projectKey
  queryFilter,  \* JiraClient.queryFilter ("" when none is configured)
  jql,          \* GetIssues local: the JQL text, as the pieces it is built from
  server,       \* the remote result set of the JQL query, in server order (issue IDs)
  maxResults,   \* page size asked of the server
  issueCache,   \* JiraClient.issueCache: issue ID -> issue
  lastRefresh,  \* JiraClient.lastRefresh (0 is the zero time.Time)
  mu,           \* JiraClient.mu: [w |-> writer holds it, r |-> readers holding it]
  pc,           \* position of the refresh goroutine
  ctxDone,      \* ctx.Done() is closed
  tickerC,      \* a tick is buffered in ticker.C
  wg,           \* WaitGroup counter
  startAt,      \* GetIssues local
  allIssues,    \* GetIssues local
  chunk,        \* GetIssues local: the page being appended
  idx,          \* GetIssues local: index i of the range loop over chunk
  ret,          \* what the last GetIssues call returned: [issues, err]
  now,          \* time.Now()
  returned,     \* value last returned by GetLastRefreshTime
  input,        \* the batch handed to ConvertToCustomIssues in the mapper model
  output,       \* what ConvertToCustomIssues made of input
  hist          \* history of the run (observations only, never read by the code)

vars == <<projectKey, queryFilter, jql, server, maxResults, issueCache, lastRefresh, mu,
          pc, ctxDone, tickerC, wg, startAt, allIssues, chunk, idx, ret, now, returned,
          input, output, hist>>

Min(a, b) == IF a < b THEN a ELSE b

(* ------------------------- raw issues (go-jira) ------------------------ *)
\* the vendor custom fields the mapper reads (jira.go:193-236)
CustomFields == {"customfield_20908", "customfield_22501", "customfield_18117",
                 "customfield_21200", "customfield_18119", "customfield_33803",
                 "customfield_37238"}

\* a *jira.User; nil |-> TRUE is the nil pointer
NilUser == [nil |-> TRUE, Name |-> ""]
User(n) == [nil |-> FALSE, Name |-> n]

\* a loosely typed JSON value of the Unknowns map (interface{}): tag is its
\* dynamic type. A string carries s; an object (map[string]interface{}) carries
\* its "name" and "value" properties; an array ([]interface{}) carries elems.
\* A property or element is [kind, s]: a string, a number, or absent.
PAbsent == [kind |-> "absent", s |-> ""]
PNum == [kind |-> "number", s |-> ""]
PStr(x) == [kind |-> "string", s |-> x]
Absent == [tag |-> "absent", s |-> "", name |-> PAbsent, value |-> PAbsent, elems |-> <<>>]
Null == [Absent EXCEPT !.tag = "null"]
NumV == [Absent EXCEPT !.tag = "number"]
StrV(x) == [Absent EXCEPT !.tag = "string", !.s = x]
ObjV(n, v) == [Absent EXCEPT !.tag = "object", !.name = n, !.value = v]
ArrV(es) == [Absent EXCEPT !.tag = "array", !.elems = es]

\* a map with no entry: every identifier reads as absent (a nil map reads the same)
NoUnknowns == [f \in CustomFields |-> Absent]

\* a *jira.IssueFields; nil |-> TRUE is the nil pointer. Unknowns is the
\* tcontainer.MarshalMap of the fields go-jira has no struct member for.
NilFields == [nil |-> TRUE, Assignee |-> NilUser, Reporter |-> NilUser, Created |-> 0,
              Updated |-> 0, Resolutiondate |-> 0, Type |-> "", Unknowns |-> NoUnknowns]
Fields(a, r, c, u, res, t, unk) ==
  [nil |-> FALSE, Assignee |-> a, Reporter |-> r, Created |-> c, Updated |-> u,
   Resolutiondate |-> res, Type |-> t, Unknowns |-> unk]

\* the issue the server holds under identifier id
ServerIssue(id) ==
  [ID |-> id, Key |-> <<"INCI", id>>,
   Fields |-> Fields(NilUser, NilUser, id, id, 0, "Incident", NoUnknowns)]

(* ------------------------ ConvertToCustomIssues ------------------------ *)
\* time.Parse("2006-01-02T15:04:05.999-0700", val) on the strings the model
\* uses: the layout wants date, 'T', time, an optional fraction and a numeric
\* zone offset. The instant is counted in hours since 2024-03-01T00:00Z.
ParseTime(val) ==
  CASE val = "2024-03-01T10:00:00.000+0000" -> [ok |-> TRUE, t |-> 10]
    [] val = "2024-03-01T10:00:00+0000" -> [ok |-> TRUE, t |-> 10]
    [] val = "2024-03-01T10:00:00.000+0200" -> [ok |-> TRUE, t |-> 8]
    [] val = "2024-03-02T01:30:00.500-0500" -> [ok |-> TRUE, t |-> 30]
    [] OTHER -> [ok |-> FALSE, t |-> 0]   \* "2024-03-01T10:00:00Z", "2024-03-01", "soon", ...

\* the zero JiraIssue with its Key set (jira.go:165-167)
NewCustomIssue(key) ==
  [Key |-> key, Created |-> 0, Updated |-> 0, Resolved |-> 0, Assignee |-> "",
   Closed |-> 0, Head |-> "", Started |-> 0, Firefighting |-> 0, Severity |-> "",
   Service |-> "", RootCause |-> "", Reporter |-> "", IssueType |-> ""]

\* val, ok := Unknowns[f].(string); ok && val != ""; t, err := time.Parse(...); err == nil
TimeField(unk, f) ==
  IF unk[f].tag = "string" /\ unk[f].s # "" /\ ParseTime(unk[f].s).ok
  THEN ParseTime(unk[f].s).t ELSE 0

\* a buggy lookup that falls back to whichever property is a string
ObjectFieldEitherProp(unk, f, prop) ==
  IF unk[f].tag # "object" THEN ""
  ELSE IF unk[f][prop].kind = "string" THEN unk[f][prop].s
  ELSE IF unk[f].name.kind = "string" THEN unk[f].name.s
  ELSE IF unk[f].value.kind = "string" THEN unk[f].value.s ELSE ""

\* val, ok := Unknowns[f].(map[string]interface{}); x, ok := val[prop].(string)
ObjectField(unk, f, prop) ==
  IF unk[f].tag = "object" /\ unk[f][prop].kind = "string" THEN unk[f][prop].s ELSE ""

\* a buggy extraction that takes the last element of the array
LastOfArray(unk, f) ==
  IF unk[f].tag = "array" /\ Len(unk[f].elems) > 0
       /\ unk[f].elems[Len(unk[f].elems)].kind = "string"
  THEN unk[f].elems[Len(unk[f].elems)].s ELSE ""

\* val, ok := Unknowns[f].([]interface{}); ok && len(val) > 0; x, ok := val[0].(string)
FirstOfArray(unk, f) ==
  IF unk[f].tag = "array" /\ Len(unk[f].elems) > 0 /\ unk[f].elems[1].kind = "string"
  THEN unk[f].elems[1].s ELSE ""

\* a buggy resolution time that falls back to the update time
ResolvedOrUpdated(fl) == IF fl.Resolutiondate # 0 THEN fl.Resolutiondate ELSE fl.Updated

\* if !time.Time(issue.Fields.Resolutiondate).IsZero() { Resolved = ... }
\* (jira.go:182-184); 0 is the zero time.Time the member starts as
Resolved(fl) == IF fl.Resolutiondate # 0 THEN fl.Resolutiondate ELSE 0

\* the JiraIssue member each custom field is assigned to (jira.go:193-240)
NormalizedField(f) ==
  CASE f = "customfield_20908" -> "Closed"
    [] f = "customfield_22501" -> "Head"
    [] f = "customfield_18117" -> "Started"
    [] f = "customfield_21200" -> "Firefighting"
    [] f = "customfield_18119" -> "Severity"
    [] f = "customfield_33803" -> "Service"
    [] f = "customfield_37238" -> "RootCause"

\* the body of the range loop for one issue whose Fields is not nil (jira.go:165-240)
ConvertOne(issue) ==
  LET fl == issue.Fields
      unk == fl.Unknowns
  IN [NewCustomIssue(issue.Key) EXCEPT
        !.Assignee = IF fl.Assignee.nil THEN "" ELSE fl.Assignee.Name,
        !.Reporter = IF fl.Reporter.nil THEN "" ELSE fl.Reporter.Name,
        !.Created = fl.Created,
        !.Updated = fl.Updated,
        !.Resolved = Resolved(fl),
        !.IssueType = IF fl.Type # "" THEN fl.Type ELSE "",
        !.Closed = TimeField(unk, "customfield_20908"),
        !.Head = ObjectField(unk, "customfield_22501", "name"),
        !.Started = TimeField(unk, "customfield_18117"),
        !.Firefighting = TimeField(unk, "customfield_21200"),
        !.Severity = ObjectField(unk, "customfield_18119", "value"),
        !.Service = FirstOfArray(unk, "customfield_33803"),
        !.RootCause = FirstOfArray(unk, "customfield_37238")]

\* issue.Fields.Assignee (jira.go:170) dereferences issue.Fields: a nil Fields
\* pointer is a runtime panic (nil pointer dereference), which nothing recovers.
Dereferences(issue) == ~issue.Fields.nil

\* ConvertToCustomIssues(issues): [panic, issues, err]. The loop runs in input
\* order and stops at the first issue it cannot dereference.
ConvertToCustomIssues(issues) ==
  IF \A i \in 1..Len(issues) : Dereferences(issues[i])
  THEN [panic |-> FALSE, issues |-> [i \in 1..Len(issues) |-> ConvertOne(issues[i])],
        err |-> "nil"]
  ELSE [panic |-> TRUE, issues |-> <<>>, err |-> "nil"]

(* ------------------------------ the server ----------------------------- *)
\* "ORDER BY created DESC" (jira.go:97): identifiers are numbered in creation
\* order, so a result set lists its issues by descending identifier
RECURSIVE OrderByCreatedDesc(_)
OrderByCreatedDesc(S) ==
  IF S = {} THEN <<>>
  ELSE LET newest == CHOOSE x \in S : \A y \in S : y <= x
       IN <<newest>> \o OrderByCreatedDesc(S \ {newest})

\* result sets the tracker can hold: issues in server order, each once
ResultSets == {OrderByCreatedDesc(S) : S \in SUBSET IDs}

\* client.Issue.Search(jql, {StartAt: at, MaxResults: size}) when it succeeds:
\* the issues at offsets at .. at+size-1 of the result set
Page(srv, at, size) ==
  [i \in 1..Min(size, Len(srv) - at) |-> ServerIssue(srv[at + i])]

(* -------------------------------- query -------------------------------- *)
\* JIRA_PROJECT_KEY and JIRA_QUERY_FILTER defaults (root.go:53-54)
DefaultProjectKey == "INCI"
DefaultQueryFilter == ""
\* filter clauses a deployment may configure
QueryFilters == {DefaultQueryFilter, "priority = High"}

OrderBy == " ORDER BY created DESC"

\* jql := fmt.Sprintf("project = %s AND status not in (Cancelled,Rejected) AND
\* created>=startOfYear(-1y) ORDER BY created DESC", j.projectKey) (jira.go:97):
\* the text is kept as the sequence of its pieces
BaseJQL(pk) ==
  <<"project = ", pk, " AND ", "status not in (Cancelled,Rejected)", " AND ",
    "created>=startOfYear(-1y)", OrderBy>>

\* if j.queryFilter != "" { jql = fmt.Sprintf("%s AND %s", jql, j.queryFilter) }
\* (jira.go:100-102)
BuildJQL(pk, qf) ==
  IF qf # "" THEN BaseJQL(pk) \o <<" AND ", qf>> ELSE BaseJQL(pk)

\* a buggy field list that leaves out the root cause
SearchFieldsWithoutRootCause ==
  <<"key", "created", "updated", "resolutiondate", "assignee", "customfield_22501",
    "customfield_18117", "customfield_21200", "customfield_20908", "customfield_20905",
    "customfield_18119", "customfield_33803", "customfield_21501", "customfield_24800",
    "customfield_20911", "customfield_21201", "reporter", "customfield_31207",
    "customfield_31208", "issuetype", "customfield_29800", "customfield_28222",
    "customfield_32112", "customfield_30304">>

\* SearchOptions.Fields (jira.go:115-124)
SearchFields ==
  <<"key", "created", "updated", "resolutiondate", "assignee", "customfield_22501",
    "customfield_18117", "customfield_21200", "customfield_20908", "customfield_20905",
    "customfield_18119", "customfield_33803", "customfield_21501", "customfield_24800",
    "customfield_20911", "customfield_21201", "reporter", "customfield_31207",
    "customfield_31208", "issuetype", "customfield_29800", "customfield_28222",
    "customfield_32112", "customfield_30304", "customfield_37238">>

\* options := &jira.SearchOptions{StartAt, MaxResults, Fields} (jira.go:112-125)
SearchOptions(at, size) == [StartAt |-> at, MaxResults |-> size, Fields |-> SearchFields]

(* ------------------------------- state --------------------------------- *)
NilErr == [msg |-> "", cause |-> ""]
\* no GetIssues result is held: RefreshData's locals issues, err are not live
NoReturn == [issues |-> <<>>, err |-> NilErr]
EmptyCache == [id \in {} |-> ServerIssue(id)]
NoOutput == [panic |-> FALSE, issues |-> <<>>, err |-> "none"]

\* a buggy store that starts a fresh map holding only the new entry
PutFresh(cache, id, issue) == [x \in {id} |-> issue]

\* issueCache[id] = issue (jira.go:252)
Put(cache, id, issue) ==
  [x \in (DOMAIN cache) \cup {id} |-> IF x = id THEN issue ELSE cache[x]]

MuFree == ~mu.w /\ mu.r = {}

InitHist ==
  [requests |-> <<>>, cacheAtStart |-> EmptyCache, refreshAtStart |-> 0,
   outcome |-> "none", committed |-> EmptyCache,
   failure |-> "", active |-> 0, doneCalls |-> 0, cancelAt |-> "none", cyclesAfterCancel |-> 0,
   fields |-> <<>>]

\* the state NewJiraClient leaves (jira.go:79-89), before StartRefreshLoop
InitClient ==
  /\ jql = <<>>
  /\ issueCache = EmptyCache
  /\ lastRefresh = 0
  /\ mu = [w |-> FALSE, r |-> {}]
  /\ pc = "none"
  /\ ctxDone = FALSE
  /\ tickerC = FALSE
  /\ wg = 0
  /\ startAt = 0
  /\ allIssues = <<>>
  /\ chunk = <<>>
  /\ idx = 0
  /\ ret = NoReturn
  /\ now = 1
  /\ returned = 0
  /\ hist = InitHist

Init ==
  /\ InitClient
  /\ projectKey = DefaultProjectKey
  /\ queryFilter = DefaultQueryFilter
  /\ server \in ResultSets
  /\ maxResults \in 1..MaxPage
  /\ input = <<>>
  /\ output = NoOutput

mapperVars == <<input, output>>
queryVars == <<projectKey, queryFilter, jql>>
getIssuesVars == <<startAt, allIssues, chunk, idx>>

(* --------------------------- StartRefreshLoop -------------------------- *)
\* wg.Add(1); go func() { ...; ticker := time.NewTicker(...) (jira.go:257-262)
StartRefreshLoop ==
  /\ pc = "none"
  /\ wg' = wg + 1
  /\ pc' = "initial"
  /\ tickerC' = FALSE
  /\ UNCHANGED <<server, maxResults, issueCache, lastRefresh, mu, ctxDone,
                 getIssuesVars, ret, now, returned, mapperVars, queryVars, hist>>

\* RefreshData is entered and GetIssues runs up to its first page request
\* (jira.go:282-284, 94-125)
RefreshDataBegin ==
  /\ startAt' = 0
  /\ allIssues' = <<>>
  /\ chunk' = <<>>
  /\ idx' = 0
  /\ pc' = "search"
  /\ hist' = [hist EXCEPT !.requests = <<>>, !.cacheAtStart = issueCache,
                          !.refreshAtStart = lastRefresh, !.outcome = "running",
                          !.active = @ + 1,
                          !.cyclesAfterCancel = IF ctxDone THEN Min(@ + 1, 2) ELSE @]
  /\ jql' = BuildJQL(projectKey, queryFilter)
  /\ UNCHANGED <<projectKey, queryFilter, server, maxResults, issueCache, lastRefresh, mu,
                 ctxDone, wg, ret, now, returned, mapperVars>>

\* // Initial load (jira.go:265)
InitialLoad ==
  /\ pc = "initial"
  /\ UNCHANGED tickerC
  /\ RefreshDataBegin

(* ------------------------------ GetIssues ------------------------------ *)
\* GetIssues returns (allIssues, nil) to RefreshData (jira.go:157, 284)
GetIssuesReturn(issues) ==
  /\ ret' = [issues |-> issues, err |-> NilErr]
  /\ pc' = "convert"

\* a buggy return that hands back the pages gathered so far with the error
ErrorReturnPartial(cause) ==
  [issues |-> allIssues, err |-> [msg |-> "error searching issues", cause |-> cause]]

\* return nil, fmt.Errorf("error searching issues: %w", err) (jira.go:130)
ErrorReturn(cause) ==
  [issues |-> <<>>, err |-> [msg |-> "error searching issues", cause |-> cause]]

\* the page request fails: GetIssues logs and returns
\* (nil, "error searching issues: %w") to RefreshData (jira.go:128-131)
SearchFails ==
  /\ pc = "search"
  /\ \E cause \in Causes :
       /\ ret' = ErrorReturn(cause)
       /\ hist' = [hist EXCEPT !.requests = Append(@, startAt), !.failure = cause,
                               !.fields = SearchOptions(startAt, maxResults).Fields]
  /\ pc' = "failed"
  /\ UNCHANGED <<server, maxResults, issueCache, lastRefresh, mu, ctxDone, tickerC, wg,
                 getIssuesVars, now, returned, mapperVars, queryVars>>

\* a buggy failure path that also clears the refresh time
RefreshDataFailsClearsRefresh ==
  /\ pc = "failed"
  /\ pc' = "select"
  /\ ret' = NoReturn
  /\ startAt' = 0
  /\ allIssues' = <<>>
  /\ chunk' = <<>>
  /\ idx' = 0
  /\ lastRefresh' = 0
  /\ hist' = [hist EXCEPT !.requests = <<>>, !.failure = "", !.outcome = "failed",
                          !.active = @ - 1]
  /\ UNCHANGED <<server, maxResults, issueCache, mu, ctxDone, tickerC, wg,
                 now, returned, mapperVars, queryVars>>

\* a buggy failure path that ends the goroutine instead of returning to the loop
RefreshDataFailsEndsLoop ==
  /\ pc = "failed"
  /\ pc' = "exited"
  /\ ret' = NoReturn
  /\ startAt' = 0
  /\ allIssues' = <<>>
  /\ chunk' = <<>>
  /\ idx' = 0
  /\ hist' = [hist EXCEPT !.requests = <<>>, !.failure = "", !.outcome = "failed",
                          !.active = @ - 1]
  /\ UNCHANGED <<server, maxResults, issueCache, lastRefresh, mu, ctxDone, tickerC, wg,
                 now, returned, mapperVars, queryVars>>

\* if err != nil { log; return }: RefreshData returns to the loop, its locals
\* gone (jira.go:285-288)
RefreshDataFails ==
  /\ pc = "failed"
  /\ pc' = "select"
  /\ ret' = NoReturn
  /\ startAt' = 0
  /\ allIssues' = <<>>
  /\ chunk' = <<>>
  /\ idx' = 0
  /\ hist' = [hist EXCEPT !.requests = <<>>, !.failure = "", !.outcome = "failed",
                          !.active = @ - 1]
  /\ UNCHANGED <<server, maxResults, issueCache, lastRefresh, mu, ctxDone, tickerC, wg,
                 now, returned, mapperVars, queryVars>>

\* the page request succeeds (jira.go:127, 133-135)
SearchPage ==
  /\ pc = "search"
  /\ LET page == Page(server, startAt, maxResults) IN
       IF Len(page) = 0
       THEN /\ GetIssuesReturn(allIssues)
            /\ UNCHANGED <<chunk, idx>>
       ELSE /\ chunk' = page
            /\ idx' = 1
            /\ pc' = "update"
            /\ UNCHANGED ret
  /\ hist' = [hist EXCEPT !.requests = Append(@, startAt),
                          !.fields = SearchOptions(startAt, maxResults).Fields]
  /\ UNCHANGED <<server, maxResults, issueCache, lastRefresh, mu, ctxDone, tickerC, wg,
                 startAt, allIssues, now, returned, mapperVars, queryVars>>

\* allIssues = append(allIssues, &chunk[i]); updateIssueCache: j.mu.Lock()
\* (jira.go:139-140, 250)
updateIssueCacheLock ==
  /\ pc = "update"
  /\ MuFree
  /\ allIssues' = Append(allIssues, chunk[idx])
  /\ mu' = [mu EXCEPT !.w = TRUE]
  /\ pc' = "store"
  /\ UNCHANGED <<server, maxResults, issueCache, lastRefresh, ctxDone, tickerC, wg,
                 startAt, chunk, idx, ret, now, returned, mapperVars, queryVars, hist>>

\* a buggy page-size test that also stops after a full page
IsLastPageOffByOne(n) == n <= maxResults

\* if len(chunk) < maxResults { break } (jira.go:143-145)
IsLastPage(n) == n < maxResults

\* a buggy advance that asks for the same page again
NextStartAtStuck(at, n) == at

\* startAt += len(chunk) (jira.go:147)
NextStartAt(at, n) == at + n

\* a buggy updateIssueCache that returns with the lock still held
StillLocked(m) == m

\* defer j.mu.Unlock() of updateIssueCache (jira.go:251)
Unlocked(m) == [m EXCEPT !.w = FALSE]

\* j.issueCache[issue.ID] = issue; Unlock; then the rest of the range loop and
\* the page-size test (jira.go:252, 251, 138, 143-147)
updateIssueCacheStore ==
  /\ pc = "store"
  /\ issueCache' = Put(issueCache, chunk[idx].ID, chunk[idx])
  /\ mu' = Unlocked(mu)
  /\ IF idx < Len(chunk)
     THEN /\ idx' = idx + 1
          /\ pc' = "update"
          /\ UNCHANGED <<startAt, ret>>
     ELSE IF IsLastPage(Len(chunk))
     THEN /\ GetIssuesReturn(allIssues)
          /\ UNCHANGED <<startAt, idx>>
     ELSE /\ startAt' = NextStartAt(startAt, Len(chunk))
          /\ pc' = "search"
          /\ UNCHANGED <<idx, ret>>
  /\ UNCHANGED <<server, maxResults, lastRefresh, ctxDone, tickerC, wg,
                 allIssues, chunk, now, returned, mapperVars, queryVars, hist>>

(* ------------------------------ RefreshData ---------------------------- *)
\* ConvertToCustomIssues(issues), then j.mu.Lock() (jira.go:291-297)
RefreshDataLock ==
  /\ pc = "convert"
  /\ LET c == ConvertToCustomIssues(ret.issues) IN
       IF c.panic
       THEN pc' = "panicked" /\ UNCHANGED mu
       ELSE /\ MuFree
            /\ mu' = [mu EXCEPT !.w = TRUE]
            /\ pc' = "commit"
  /\ UNCHANGED <<server, maxResults, issueCache, lastRefresh, ctxDone, tickerC, wg,
                 getIssuesVars, ret, now, returned, mapperVars, queryVars, hist>>

\* j.lastRefresh = time.Now(); j.mu.Unlock(); log; return to the loop, the
\* locals of RefreshData and GetIssues gone (jira.go:298-309)
RefreshDataCommit ==
  /\ pc = "commit"
  /\ lastRefresh' = now
  /\ mu' = [mu EXCEPT !.w = FALSE]
  /\ pc' = "select"
  /\ ret' = NoReturn
  /\ startAt' = 0
  /\ allIssues' = <<>>
  /\ chunk' = <<>>
  /\ idx' = 0
  /\ hist' = [hist EXCEPT !.requests = <<>>, !.outcome = "ok", !.committed = issueCache,
                          !.active = @ - 1]
  /\ UNCHANGED <<server, maxResults, issueCache, ctxDone, tickerC, wg,
                 now, returned, mapperVars, queryVars>>

(* ------------------------- the periodic loop --------------------------- *)
\* a buggy loop whose select also runs while a RefreshData call is in flight
\* (RefreshData started without waiting for it)
AtSelectOrFetching ==
  pc \in {"select", "search", "failed", "update", "store", "convert", "commit"}

\* the goroutine stands at the select statement, about to evaluate it (jira.go:269)
AtSelect == pc = "select"

\* a buggy ctx.Done() case that logs and goes round the loop again
LoopNoReturn ==
  /\ pc' = "select"
  /\ UNCHANGED <<server, maxResults, issueCache, lastRefresh, mu, ctxDone, tickerC, wg,
                 getIssuesVars, ret, now, returned, mapperVars, queryVars, hist>>

\* case <-ctx.Done(): log; return; deferred ticker.Stop() and wg.Done()
\* (jira.go:270-272, 262, 259)
LoopReturn ==
  /\ pc' = "exited"
  /\ wg' = wg - 1
  /\ hist' = [hist EXCEPT !.doneCalls = @ + 1]
  /\ UNCHANGED <<server, maxResults, issueCache, lastRefresh, mu, ctxDone, tickerC,
                 getIssuesVars, ret, now, returned, mapperVars, queryVars>>

\* select finds ctx.Done() ready. When ticker.C is ready too, Go picks either
\* case, so this action and SelectTick are both enabled.
SelectDone ==
  /\ AtSelect
  /\ ctxDone
  /\ LoopReturn

\* select finds ticker.C ready: case <-ticker.C: j.RefreshData(ctx) (jira.go:273-274)
SelectTick ==
  /\ AtSelect
  /\ tickerC
  /\ tickerC' = FALSE
  /\ RefreshDataBegin

\* select finds no case ready: the goroutine parks on both channels
SelectPark ==
  /\ AtSelect
  /\ ~ctxDone
  /\ ~tickerC
  /\ pc' = "parked"
  /\ UNCHANGED <<server, maxResults, issueCache, lastRefresh, mu, ctxDone, tickerC, wg,
                 getIssuesVars, ret, now, returned, mapperVars, queryVars, hist>>

\* the parked goroutine was woken by the close of ctx.Done(): that case runs
WakeDone ==
  /\ pc = "stopping"
  /\ LoopReturn

\* the parked goroutine was handed a tick: that case runs
WakeTick ==
  /\ pc = "ticked"
  /\ UNCHANGED tickerC
  /\ RefreshDataBegin

(* ----------------------------- environment ----------------------------- *)
\* where the loop stands, as cancellation sees it
LoopPhase ==
  CASE pc = "none" -> "before"
    [] pc \in {"search", "failed", "update", "store", "convert", "commit"} -> "fetch"
    [] OTHER -> pc

\* cancel() of the context (root.go:155-156): closing ctx.Done() wakes a
\* goroutine parked in the select with the ctx.Done() case chosen
Cancel ==
  /\ ~ctxDone
  /\ ctxDone' = TRUE
  /\ pc' = IF pc = "parked" THEN "stopping" ELSE pc
  /\ hist' = [hist EXCEPT !.cancelAt = LoopPhase]
  /\ UNCHANGED <<server, maxResults, issueCache, lastRefresh, mu, tickerC, wg,
                 getIssuesVars, ret, now, returned, mapperVars, queryVars>>

\* the ticker's interval elapses (jira.go:261): the tick goes to the goroutine
\* parked in the select, else into the one-slot buffer of ticker.C (dropped
\* when the slot is full)
TickerFire ==
  /\ pc \notin {"none", "exited", "panicked"}
  /\ IF pc = "parked"
     THEN pc' = "ticked" /\ UNCHANGED tickerC
     ELSE tickerC' = TRUE /\ UNCHANGED pc
  /\ UNCHANGED <<server, maxResults, issueCache, lastRefresh, mu, ctxDone, wg,
                 getIssuesVars, ret, now, returned, mapperVars, queryVars, hist>>

\* time passes
Advance ==
  /\ now < MaxTime
  /\ now' = now + 1
  /\ UNCHANGED <<server, maxResults, issueCache, lastRefresh, mu, pc, ctxDone, tickerC,
                 wg, getIssuesVars, ret, returned, mapperVars, queryVars, hist>>

\* the tracker's result set changes between two polls of the running loop: an
\* issue is created, or one leaves the result set (cancelled, rejected, too old)
ServerChange ==
  /\ pc \in {"select", "parked", "ticked"}
  /\ \E s \in ResultSets :
       /\ \/ Len(s) = Len(server) + 1
          \/ Len(s) = Len(server) - 1
       /\ \/ {s[i] : i \in 1..Len(s)} \subseteq {server[i] : i \in 1..Len(server)}
          \/ {server[i] : i \in 1..Len(server)} \subseteq {s[i] : i \in 1..Len(s)}
       /\ server' = s
  /\ UNCHANGED <<maxResults, issueCache, lastRefresh, mu, pc, ctxDone, tickerC, wg,
                 getIssuesVars, ret, now, returned, mapperVars, queryVars, hist>>

(* -------------------------- GetLastRefreshTime ------------------------- *)
\* j.mu.RLock() (jira.go:313)
GetLastRefreshTimeRLock(r) ==
  /\ r \notin mu.r
  /\ ~mu.w
  /\ mu' = [mu EXCEPT !.r = @ \cup {r}]
  /\ UNCHANGED <<server, maxResults, issueCache, lastRefresh, pc, ctxDone, tickerC, wg,
                 getIssuesVars, ret, now, returned, mapperVars, queryVars, hist>>

\* return j.lastRefresh; deferred RUnlock (jira.go:314-315)
GetLastRefreshTimeReturn(r) ==
  /\ r \in mu.r
  /\ returned' = lastRefresh
  /\ mu' = [mu EXCEPT !.r = @ \ {r}]
  /\ UNCHANGED <<server, maxResults, issueCache, lastRefresh, pc, ctxDone, tickerC, wg,
                 getIssuesVars, ret, now, mapperVars, queryVars, hist>>

(* --------------------------- specifications ---------------------------- *)
Next ==
  \/ StartRefreshLoop
  \/ InitialLoad
  \/ SearchFails
  \/ RefreshDataFails
  \/ SearchPage
  \/ updateIssueCacheLock
  \/ updateIssueCacheStore
  \/ RefreshDataLock
  \/ RefreshDataCommit
  \/ SelectDone
  \/ SelectTick
  \/ SelectPark
  \/ WakeDone
  \/ WakeTick
  \/ Cancel
  \/ TickerFire
  \/ ServerChange

\* the refresh loop under cancellation, ticks and a changing tracker
Spec == Init /\ [][Next]_vars

\* the steps of the refresh goroutine (jira.go:258-277)
LoopStep ==
  \/ StartRefreshLoop
  \/ InitialLoad
  \/ SearchFails
  \/ RefreshDataFails
  \/ SearchPage
  \/ updateIssueCacheLock
  \/ updateIssueCacheStore
  \/ RefreshDataLock
  \/ RefreshDataCommit
  \/ SelectDone
  \/ SelectTick
  \/ SelectPark
  \/ WakeDone
  \/ WakeTick

NextLive ==
  \/ LoopStep
  \/ Cancel
  \/ TickerFire

\* the loop against a stable result set, with a goroutine that is scheduled
\* whenever it can run, page requests that return, and a ticker that keeps
\* firing (jira.go:261)
SpecLive == Init /\ [][NextLive]_vars /\ WF_vars(LoopStep) /\ WF_vars(TickerFire)

\* the refresh loop with a clock and callers of GetLastRefreshTime
NextReaders ==
  \/ StartRefreshLoop
  \/ InitialLoad
  \/ SearchFails
  \/ RefreshDataFails
  \/ SearchPage
  \/ updateIssueCacheLock
  \/ updateIssueCacheStore
  \/ RefreshDataLock
  \/ RefreshDataCommit
  \/ SelectTick
  \/ SelectPark
  \/ WakeTick
  \/ TickerFire
  \/ Advance
  \/ \E r \in Readers : GetLastRefreshTimeRLock(r)
  \/ \E r \in Readers : GetLastRefreshTimeReturn(r)

SpecReaders == Init /\ [][NextReaders]_vars

\* one RefreshData call against a stable result set of N issues with page size P
InitQuery ==
  /\ InitClient
  /\ projectKey = DefaultProjectKey
  /\ queryFilter \in QueryFilters
  /\ \E n \in 0..MaxN : server = OrderByCreatedDesc(1..n)
  /\ maxResults \in 1..MaxP
  /\ input = <<>>
  /\ output = NoOutput

NextQuery ==
  \/ StartRefreshLoop
  \/ InitialLoad
  \/ SearchFails
  \/ RefreshDataFails
  \/ SearchPage
  \/ updateIssueCacheLock
  \/ updateIssueCacheStore
  \/ RefreshDataLock
  \/ RefreshDataCommit

SpecQuery == InitQuery /\ [][NextQuery]_vars

\* the same call with a goroutine that keeps running and page requests that return
SpecQueryLive == SpecQuery /\ WF_vars(NextQuery)

(* --------------------------- the mapper alone --------------------------- *)
\* loosely typed values a custom field can carry
ValueSamples ==
  {Absent, Null, NumV, StrV(""), StrV("soon"), StrV("2024-03-01T10:00:00Z"),
   StrV("2024-03-01T10:00:00.000+0000"), StrV("2024-03-02T01:30:00.500-0500"),
   ObjV(PStr("payments-team"), PAbsent), ObjV(PAbsent, PStr("SEV2")),
   ObjV(PNum, PNum), ArrV(<<>>), ArrV(<<PNum>>), ArrV(<<PStr("payments")>>),
   ArrV(<<PStr("config"), PStr("deploy")>>)}

\* every custom field in the shape the mapper expects of it
ExpectedUnknowns ==
  [f \in CustomFields |->
     CASE f = "customfield_20908" -> StrV("2024-03-02T01:30:00.500-0500")
       [] f = "customfield_22501" -> ObjV(PStr("payments-team"), PAbsent)
       [] f = "customfield_18117" -> StrV("2024-03-01T10:00:00.000+0200")
       [] f = "customfield_21200" -> StrV("2024-03-01T10:00:00.000+0000")
       [] f = "customfield_18119" -> ObjV(PAbsent, PStr("SEV2"))
       [] f = "customfield_33803" -> ArrV(<<PStr("payments")>>)
       [] f = "customfield_37238" -> ArrV(<<PStr("config"), PStr("deploy")>>)]

\* custom-field maps: none present, all as expected, or one field of either
\* carrying any sample value
UnknownsSamples ==
  {NoUnknowns, ExpectedUnknowns}
    \cup {[base EXCEPT ![f] = v] :
            base \in {NoUnknowns, ExpectedUnknowns}, f \in CustomFields, v \in ValueSamples}

FieldsSamples ==
  {NilFields}
    \cup {Fields(NilUser, NilUser, 1, 2, 0, "", unk) : unk \in UnknownsSamples}
    \cup {Fields(User("alice"), User("bob"), 1, 2, 5, "Incident", unk) : unk \in UnknownsSamples}

RawIssue(k, fl) == [ID |-> k, Key |-> <<"INCI", k>>, Fields |-> fl]

\* the issues batches of several are made of
BatchIssues ==
  {RawIssue(1, Fields(NilUser, NilUser, 1, 2, 0, "", ExpectedUnknowns)),
   RawIssue(2, Fields(User("alice"), User("bob"), 1, 2, 5, "Incident", NoUnknowns)),
   RawIssue(3, NilFields)}

Batches ==
  {<<>>}
    \cup {<<RawIssue(1, fl)>> : fl \in FieldsSamples}
    \cup UNION {[1..n -> BatchIssues] : n \in 2..MaxBatch}

InitMap ==
  /\ InitClient
  /\ projectKey = DefaultProjectKey
  /\ queryFilter = DefaultQueryFilter
  /\ server = <<>>
  /\ maxResults = 1
  /\ input \in Batches
  /\ output = NoOutput

\* customIssues, err := j.ConvertToCustomIssues(issues)
Convert ==
  /\ output = NoOutput
  /\ output' = ConvertToCustomIssues(input)
  /\ UNCHANGED <<server, maxResults, issueCache, lastRefresh, mu, pc, ctxDone, tickerC,
                 wg, getIssuesVars, ret, now, returned, input, queryVars, hist>>

NextMap == Convert

SpecMap == InitMap /\ [][NextMap]_vars

(* ------------------------------- claims -------------------------------- *)
FetchPcs == {"search", "failed", "update", "store", "convert", "commit"}

\* the identifier -> issue mapping holding exactly the issues of a result list
SnapshotOf(issues) ==
  [id \in {issues[i].ID : i \in 1..Len(issues)} |->
     (CHOOSE x \in {issues[i] : i \in 1..Len(issues)} : x.ID = id)]

\* a snapshot laid over an older one
MergedInto(old, new) ==
  [id \in (DOMAIN old) \cup (DOMAIN new) |-> IF id \in DOMAIN new THEN new[id] ELSE old[id]]

\* C1: when a page request of a refresh cycle fails, the cached issue mapping
\* and lastRefresh are, once RefreshData has returned, what they were when the
\* cycle started.
C1_FailedCycleLeavesSnapshot ==
  hist.outcome = "failed" =>
    /\ issueCache = hist.cacheAtStart
    /\ lastRefresh = hist.refreshAtStart

\* C2: after a successful refresh cycle the cached mapping holds exactly the
\* issues that cycle's query returned (replaced wholesale, not merged).
C2_CacheIsLatestResult ==
  [][(pc = "commit" /\ pc' = "select") => issueCache' = SnapshotOf(ret.issues)]_vars

\* C3: whenever a reader could take the read lock, the cached mapping is the
\* complete snapshot of the last successful cycle or, while a cycle runs, the
\* complete snapshot of that cycle (on its own or laid over the previous one),
\* never a part of it.
C3_NoPartialSnapshot ==
  ~mu.w =>
    \/ issueCache = hist.committed
    \/ /\ hist.outcome = "running"
       /\ issueCache \in {SnapshotOf(Page(server, 0, Len(server))),
                          MergedInto(hist.committed,
                                     SnapshotOf(Page(server, 0, Len(server))))}

\* GetIssues has returned without error to RefreshData
GetIssuesSucceeded == pc \in {"convert", "commit"}

\* C4: against a stable result set of N issues and page size P >= 1, with every
\* page request succeeding, GetIssues returns the N issues, each once, in server
\* order, having requested offsets 0, P, 2P, ... in floor(N/P)+1 page requests.
C4_Pagination ==
  GetIssuesSucceeded =>
    /\ ret.issues = Page(server, 0, Len(server))
    /\ hist.requests = [k \in 1..((Len(server) \div maxResults) + 1) |-> (k - 1) * maxResults]

\* C4 witness: 5 issues with page size 2 came back from 3 requests
C4_Witness ==
  /\ pc = "commit"
  /\ maxResults = 2
  /\ Len(ret.issues) = 5
  /\ hist.requests = <<0, 2, 4>>

\* C5: when a page request fails, GetIssues has requested each offset at most
\* once, the failed one last, it returns no issues and the error "error
\* searching issues" wrapping the cause of the failure, and the caller's next
\* step is the return to the loop (no further request in that call).
C5_AllOrNothing ==
  /\ [](pc = "failed" =>
          /\ ret.issues = <<>>
          /\ ret.err = [msg |-> "error searching issues", cause |-> hist.failure]
          /\ hist.failure \in Causes
          /\ hist.requests[Len(hist.requests)] = startAt
          /\ \A i, k \in 1..Len(hist.requests) :
               i < k => hist.requests[i] < hist.requests[k])
  /\ [][pc = "failed" => pc' = "select" /\ hist'.requests = <<>>]_vars

\* C5 witness: the third page request failed after two pages were gathered
C5_Witness ==
  /\ pc = "failed"
  /\ Len(hist.requests) = 3
  /\ Len(allIssues) >= 2
  /\ ret.issues = <<>>

\* C6: once cancellation has reached the loop parked in its select between
\* ticks, no refresh cycle is started, the goroutine can only return, and
\* wg.Done has run exactly once when it has.
C6_CancelBetweenTicks ==
  hist.cancelAt = "parked" =>
    /\ hist.cyclesAfterCancel = 0
    /\ pc \in {"stopping", "exited"}
    /\ hist.doneCalls = (IF pc = "exited" THEN 1 ELSE 0)
    /\ wg = 1 - hist.doneCalls

\* C6 witness: cancelled while parked, a tick arrived afterwards, the loop exited
C6_Witness ==
  /\ hist.cancelAt = "parked"
  /\ tickerC
  /\ pc = "exited"
  /\ hist.doneCalls = 1
  /\ wg = 0

\* C7: when cancellation arrives while a fetch is in flight, the loop starts
\* no further refresh cycle after that fetch returns, even with a tick pending.
C7_NoCycleAfterCancelInFlight ==
  hist.cancelAt = "fetch" => hist.cyclesAfterCancel = 0

\* C8: the value GetLastRefreshTime returns, and lastRefresh itself, never
\* decrease, whatever the order of successful and failed cycles.
C8_RefreshTimeMonotonic ==
  [][returned' >= returned /\ lastRefresh' >= lastRefresh]_vars

\* C8 witness: a second cycle succeeded at a later time and a reader saw it
C8_Witness ==
  /\ hist.outcome = "ok"
  /\ hist.refreshAtStart = 1
  /\ lastRefresh = 2
  /\ returned = 2

\* C9: at most one refresh cycle is in its fetch/map/commit phase, and one is
\* in flight exactly while the loop goroutine is inside RefreshData.
C9_NoOverlap ==
  /\ hist.active \in {0, 1}
  /\ hist.active = 1 <=> pc \in FetchPcs
  /\ hist.active = 1 <=> hist.outcome = "running"

\* C9 witness: the interval elapsed while a fetch was still in flight
C9_Witness ==
  /\ pc = "search"
  /\ startAt > 0
  /\ tickerC
  /\ hist.active = 1

\* C10: ConvertToCustomIssues returns, without error or panic, one record per
\* input record, in input order, each with the input's key.
C10_MapperNeverFails ==
  output # NoOutput =>
    /\ ~output.panic
    /\ output.err = "nil"
    /\ Len(output.issues) = Len(input)
    /\ \A i \in 1..Len(input) : output.issues[i].Key = input[i].Key

(* ------------------------------ the mapper ----------------------------- *)
TimestampFields == {"customfield_20908", "customfield_18117", "customfield_21200"}
ArrayFields == {"customfield_33803", "customfield_37238"}

\* the value v is not of the shape field f is read in: a timestamp string that
\* parses, an object whose property ("name" for the head, "value" for the
\* severity) is a string, an array whose first element is a string
Malformed(f, v) ==
  CASE f \in TimestampFields -> v.tag # "string" \/ ~ParseTime(v.s).ok
    [] f = "customfield_22501" -> v.tag # "object" \/ v.name.kind # "string"
    [] f = "customfield_18119" -> v.tag # "object" \/ v.value.kind # "string"
    [] f \in ArrayFields ->
         v.tag # "array" \/ Len(v.elems) = 0 \/ v.elems[1].kind # "string"

Converted == output # NoOutput /\ ~output.panic

\* issue with its custom field f carrying v
WithField(issue, f, v) == [issue EXCEPT !.Fields.Unknowns[f] = v]

\* C11: a custom field that is absent, of another shape than expected, or an
\* unparsable timestamp leaves its normalized field absent (the zero value),
\* and every other field of the normalized issue is what it is whatever that
\* custom field carries.
C11_FieldsIndependent ==
  Converted =>
    \A i \in 1..Len(input) : \A f \in CustomFields :
      Malformed(f, input[i].Fields.Unknowns[f]) =>
        /\ output.issues[i][NormalizedField(f)]
             = NewCustomIssue(input[i].Key)[NormalizedField(f)]
        /\ \A v \in ValueSamples :
             LET other == ConvertOne(WithField(input[i], f, v)) IN
               \A g \in (DOMAIN other) \ {NormalizedField(f)} :
                 other[g] = output.issues[i][g]

\* an unparsable closed timestamp among otherwise well-formed fields
C11_Witness ==
  /\ Converted
  /\ Len(input) = 1
  /\ input[1].Fields.Unknowns
       = [ExpectedUnknowns EXCEPT !["customfield_20908"] = StrV("2024-03-01T10:00:00Z")]
  /\ output.issues[1].Closed = 0
  /\ output.issues[1].Severity = "SEV2"
  /\ output.issues[1].Started = 8

\* what a well-formed value v of custom field f carries
Carried(f, v) ==
  CASE f \in TimestampFields -> ParseTime(v.s).t
    [] f = "customfield_22501" -> v.name.s
    [] f = "customfield_18119" -> v.value.s
    [] f \in ArrayFields -> v.elems[1].s

\* C12: custom fields of the expected shapes are carried over: the severity is
\* the object's "value", the head its "name", service and root cause the first
\* array element, closed/started/firefighting the parsed instant; key INCI-1
\* with severity {value: SEV2} and service [payments] gives key INCI-1,
\* severity SEV2, service payments.
C12_ExpectedShapes ==
  Converted =>
    \A i \in 1..Len(input) :
      LET unk == input[i].Fields.Unknowns
          o == output.issues[i]
      IN /\ \A f \in CustomFields :
              ~Malformed(f, unk[f]) => o[NormalizedField(f)] = Carried(f, unk[f])
         /\ (/\ input[i].Key = <<"INCI", 1>>
             /\ unk["customfield_18119"] = ObjV(PAbsent, PStr("SEV2"))
             /\ unk["customfield_33803"] = ArrV(<<PStr("payments")>>))
              => o.Key = <<"INCI", 1>> /\ o.Severity = "SEV2" /\ o.Service = "payments"
         /\ unk = ExpectedUnknowns
              => /\ o.Head = "payments-team" /\ o.RootCause = "config"
                 /\ o.Closed = 30 /\ o.Started = 8 /\ o.Firefighting = 10

\* INCI-1 with every custom field well-formed has been converted
C12_Witness ==
  /\ Converted
  /\ Len(input) = 1
  /\ input[1].Key = <<"INCI", 1>>
  /\ input[1].Fields.Unknowns = ExpectedUnknowns
  /\ output.issues[1].Key = <<"INCI", 1>>
  /\ output.issues[1].Severity = "SEV2"
  /\ output.issues[1].Service = "payments"
  /\ output.issues[1].RootCause = "config"

\* C13: the normalized resolved time is absent (the zero time) when the raw
\* resolution timestamp is zero, and is the raw timestamp otherwise.
C13_Resolved ==
  Converted =>
    \A i \in 1..Len(input) :
      LET res == input[i].Fields.Resolutiondate IN
        /\ res = 0 => output.issues[i].Resolved = 0
        /\ res # 0 => output.issues[i].Resolved = res

\* an unresolved and a resolved issue converted in one batch
C13_Witness ==
  /\ Converted
  /\ Len(input) = 2
  /\ input[1].Fields.Resolutiondate = 0 /\ input[1].Fields.Updated # 0
  /\ output.issues[1].Resolved = 0
  /\ input[2].Fields.Resolutiondate = 5
  /\ output.issues[2].Resolved = 5

(* ------------------------------ the loop ------------------------------- *)
CycleOver == hist.outcome \in {"ok", "failed"}

\* C14: the first cycle starts from the initial load, taking no tick; a cycle
\* that ends, failed or not, leaves the goroutine at the select; the next
\* cycle takes a tick; and while nothing cancels and the ticker fires, the
\* initial cycle starts and every finished cycle is followed by another fetch.
C14_LoopKeepsRunning ==
  /\ [][hist.outcome = "none" /\ hist'.outcome = "running"
          => pc = "initial" /\ tickerC' = tickerC]_vars
  /\ [][(pc \in {"failed", "commit"} /\ pc' # pc) => (pc' = "select")]_vars
  /\ [][CycleOver /\ hist'.outcome = "running"
          => pc = "ticked" \/ (tickerC /\ ~tickerC')]_vars
  /\ (pc = "initial") ~> (hist.outcome = "running")
  /\ (CycleOver /\ ~ctxDone) ~> (hist.outcome = "running" \/ ctxDone)

\* a fetch is under way after an earlier cycle that stored issues and failed
C14_Witness ==
  /\ pc = "search"
  /\ hist.outcome = "running"
  /\ ~ctxDone
  /\ lastRefresh = 0
  /\ hist.cacheAtStart # EmptyCache

(* ------------------------------ GetIssues ------------------------------ *)
GetIssuesReturned == pc \in {"convert", "failed"}

\* C15: GetIssues returns for every result set of N issues and page size
\* P >= 1: the offset never passes N and grows with every further request,
\* so a request is always followed by the return; an empty result set takes
\* one request and returns the empty list without error, and an N that is a
\* multiple of P ends on the empty page asked at offset N.
C15_GetIssuesTerminates ==
  /\ [](startAt <= Len(server))
  /\ [][(pc = "store" /\ pc' = "search") => (startAt' > startAt)]_vars
  /\ []((pc = "convert" /\ Len(server) = 0)
          => (hist.requests = <<0>> /\ ret = [issues |-> <<>>, err |-> NilErr]))
  /\ []((pc = "convert" /\ Len(server) > 0 /\ Len(server) % maxResults = 0)
          => (hist.requests[Len(hist.requests)] = Len(server)
              /\ Len(hist.requests) = (Len(server) \div maxResults) + 1))
  /\ (pc = "search") ~> GetIssuesReturned

\* four issues in pages of two: the third request, at offset 4, came back empty
C15_Witness ==
  /\ pc = "convert"
  /\ Len(server) = 4
  /\ maxResults = 2
  /\ hist.requests = <<0, 2, 4>>
  /\ Len(ret.issues) = 4

\* C16: with a filter clause configured the JQL text is the conjunction of
\* the project, status, creation-range and filter conditions followed by the
\* ordering clause; with none it is the base expression.
C16_FilterInsideCondition ==
  jql # <<>> =>
    IF queryFilter = ""
    THEN jql = <<"project = ", projectKey, " AND ", "status not in (Cancelled,Rejected)",
                 " AND ", "created>=startOfYear(-1y)", " ORDER BY created DESC">>
    ELSE jql = <<"project = ", projectKey, " AND ", "status not in (Cancelled,Rejected)",
                 " AND ", "created>=startOfYear(-1y)", " AND ", queryFilter,
                 " ORDER BY created DESC">>

\* the standard fields the mapper reads: issue.Key, Fields.Assignee, Reporter,
\* Created, Updated, Resolutiondate, Type (jira.go:166-187)
StandardFieldsRead ==
  {"key", "assignee", "reporter", "created", "updated", "resolutiondate", "issuetype"}

\* C17: every page request of every call asks for the same field list, and
\* the list holds each standard field and each of the seven custom fields the
\* mapper reads.
C17_FieldSelection ==
  /\ [][(hist.fields # <<>>) => (hist'.fields = hist.fields)]_vars
  /\ []((hist.fields # <<>>) =>
          (StandardFieldsRead \cup CustomFields
             \subseteq {hist.fields[i] : i \in 1..Len(hist.fields)}))

\* the second page request of a call made after an earlier call succeeded
C17_Witness ==
  /\ pc \in {"update", "convert"}
  /\ Len(hist.requests) = 2
  /\ lastRefresh # 0
  /\ Len(hist.fields) = 25

(* ------------------------------ the lock ------------------------------- *)
PageRequestInFlight == pc = "search"

\* C18: while a page request is outstanding the writer does not hold the
\* lock, so a caller of GetLastRefreshTime that does not hold the read lock
\* can take it; and whenever the writer does not hold the lock a reader can
\* take the read lock whichever other readers hold it.
C18_NoLockAcrossRequest ==
  /\ PageRequestInFlight => ~mu.w
  /\ \A r \in Readers :
       (PageRequestInFlight /\ r \notin mu.r) => ENABLED GetLastRefreshTimeRLock(r)
  /\ \A r \in Readers :
       (~mu.w /\ r \notin mu.r /\ mu.r # {}) => ENABLED GetLastRefreshTimeRLock(r)

\* the second page request is outstanding while every reader holds the read lock
C18_Witness ==
  /\ PageRequestInFlight
  /\ startAt > 0
  /\ Cardinality(mu.r) >= 2
  /\ mu.r = Readers

(* ------------------------ cancellation at start ------------------------ *)
\* C19: when the context is cancelled before StartRefreshLoop is called, the
\* loop that has exited started exactly one fetch.
C19_OneFetchWhenCancelledBefore ==
  (hist.cancelAt = "before" /\ pc = "exited") => hist.cyclesAfterCancel = 1

(* ------------------------------ the cache ------------------------------ *)
\* C20: no step removes an identifier from the issue cache.
C20_CacheNeverShrinks ==
  [][DOMAIN issueCache \subseteq DOMAIN issueCache']_vars

\* a cycle has succeeded on a result set that no longer holds the cached issues
C20_Witness ==
  /\ hist.outcome = "ok"
  /\ server = <<>>
  /\ DOMAIN issueCache = IDs
  /\ Cardinality(DOMAIN issueCache) >= 2
====
